---- MODULE Spec2Model ----
(***************************************************************************)
(* Model of main.py: the /validate endpoint, run_proxy and its helpers     *)
(* (ensure_in_iframe_context, try_login_if_present, fill_and_click_app,    *)
(* extract_output).                                                        *)
(*                                                                         *)
(* Representation.                                                         *)
(*  - A page text (inner_text, content) is a run-length encoded string: a  *)
(*    sequence of <<character, count>> runs, adjacent runs of different    *)
(*    characters, every count > 0.  This keeps the real lengths (10, 11,   *)
(*    120000) within reach of the model checker.                           *)
(*  - A character is a one-character string; a character that a string of  *)
(*    this language cannot hold is written as its Python escape, as in     *)
(*    "\\x0b" or "\\xa0".                                                  *)
(*  - A URL or an iframe src is a sequence of tokens: a token is a single  *)
(*    character (white space, "/", a quote, a backslash) or a piece made   *)
(*    of letters, digits and other characters that repr() copies ("http"   *)
(*    is these four letters).                                              *)
(*  - A log entry of `debug` is a sequence of strings: the pieces of the   *)
(*    formatted message, in order.                                         *)
(*  - A call of the browser library that may raise is a site <<name, k>>;  *)
(*    `plan` is the set of sites that raise in this request.               *)
(*  - An action is one awaited call together with the code that runs up to *)
(*    the next awaited call; the remote application changes the page       *)
(*    between two such steps.                                              *)
(*  - The clock is in milliseconds.                                        *)
(***************************************************************************)
EXTENDS Integers, Sequences, FiniteSets, TLC

\* ------------------------------------------------------------------ bounds
MaxFaults == 1
MaxInputs == 2
MaxButtons == 1
MaxNodes == 2
MaxPassMs == 400

\* ------------------------------------------------------- program constants
timeout_s == 45
MAX_CHARS == 120000
MIN_OUTPUT == 10
POLL_SLEEP_MS == 1000
ROOT_SETTLE_MS == 1200
IFRAME_SETTLE_MS == 1500
LOGIN_SETTLE_MS == 3000
POST_LOGIN_MS == 2000

ROOT_URL == <<"http", "s://bharatvision.streamlit.app">>
USERNAME_SEL == "input[placeholder=\"Enter username\"]"
PASSWORD_SEL == "input[placeholder=\"Enter password\"]"
LOGIN_BTN_SEL == "button:has-text(\"Login\")"
TEXTAREA_CANDIDATES == <<"textarea", "div[data-testid='stTextArea'] textarea">>
BUTTON_CANDIDATES ==
    <<"button[data-testid='stButton']", "button:has-text('Analyze')", "button">>
OUTPUT_CANDIDATES == <<"div.stMarkdown", "div[data-testid='stMarkdown']", "pre">>
\* "\n\n---\n\n"
SEPARATOR == << <<"\n", 2>>, <<"-", 3>>, <<"\n", 2>> >>

\* ------------------------------------------------- run-length encoded text
Rep(c, n) == IF n = 0 THEN << >> ELSE << <<c, n>> >>

RECURSIVE TLen(_)
TLen(t) == IF t = << >> THEN 0 ELSE Head(t)[2] + TLen(Tail(t))

\* t[:k]
RECURSIVE Take(_, _)
Take(t, k) ==
    IF t = << >> \/ k <= 0 THEN << >>
    ELSE IF Head(t)[2] >= k THEN << <<Head(t)[1], k>> >>
    ELSE <<Head(t)>> \o Take(Tail(t), k - Head(t)[2])

\* the characters str.strip() removes: those for which str.isspace() is true
WhiteSpace ==
    { " ", "\t", "\n", "\r", "\f", "\\x0b", "\\x1c", "\\x1d", "\\x1e", "\\x1f",
      "\\x85", "\\xa0", "\\u1680", "\\u2000", "\\u2001", "\\u2002", "\\u2003",
      "\\u2004", "\\u2005", "\\u2006", "\\u2007", "\\u2008", "\\u2009", "\\u200a",
      "\\u2028", "\\u2029", "\\u202f", "\\u205f", "\\u3000" }
IsSpace(c) == c \in WhiteSpace

RECURSIVE LStrip(_)
LStrip(t) ==
    IF t = << >> THEN << >>
    ELSE IF IsSpace(Head(t)[1]) THEN LStrip(Tail(t)) ELSE t

RECURSIVE RStrip(_)
RStrip(t) ==
    IF t = << >> THEN << >>
    ELSE IF IsSpace(t[Len(t)][1]) THEN RStrip(SubSeq(t, 1, Len(t) - 1)) ELSE t

\* str.strip()
Strip(t) == RStrip(LStrip(t))

\* a + b
Cat(a, b) ==
    IF a = << >> THEN b
    ELSE IF b = << >> THEN a
    ELSE IF a[Len(a)][1] = Head(b)[1]
         THEN SubSeq(a, 1, Len(a) - 1)
              \o << <<Head(b)[1], a[Len(a)][2] + Head(b)[2]>> >>
              \o Tail(b)
         ELSE a \o b

\* sep.join(texts)
RECURSIVE Join(_, _)
Join(sep, texts) ==
    IF texts = << >> THEN << >>
    ELSE IF Len(texts) = 1 THEN texts[1]
    ELSE Cat(Cat(texts[1], sep), Join(sep, Tail(texts)))

InSeq(x, s) == \E i \in DOMAIN s : s[i] = x

\* ------------------------------------------------------------ token strings
RECURSIVE LStripTok(_)
LStripTok(s) ==
    IF s = << >> THEN << >>
    ELSE IF IsSpace(Head(s)) THEN LStripTok(Tail(s)) ELSE s

RECURSIVE RStripTok(_)
RStripTok(s) ==
    IF s = << >> THEN << >>
    ELSE IF IsSpace(s[Len(s)]) THEN RStripTok(SubSeq(s, 1, Len(s) - 1)) ELSE s

\* s.rstrip("/")
RECURSIVE RStripSlash(_)
RStripSlash(s) ==
    IF s = << >> THEN << >>
    ELSE IF s[Len(s)] = "/" THEN RStripSlash(SubSeq(s, 1, Len(s) - 1)) ELSE s

\* s.startswith(prefix)
StartsWith(s, prefix) ==
    Len(s) >= Len(prefix) /\ SubSeq(s, 1, Len(prefix)) = prefix

\* repr() of a str: the quote it is written in
ReprQuote(s) == IF InSeq("'", s) /\ ~InSeq("\"", s) THEN "\"" ELSE "'"

\* repr() of a str: one token as it is written between the quotes q
ReprTok(tok, q) ==
    IF tok = q \/ tok = "\\" THEN <<"\\", tok>>
    ELSE IF tok = "\t" THEN <<"\\t">>
    ELSE IF tok = "\n" THEN <<"\\n">>
    ELSE IF tok = "\r" THEN <<"\\r">>
    ELSE IF tok = "\f" THEN <<"\\x0c">>
    ELSE <<tok>>

RECURSIVE ReprBody(_, _)
ReprBody(s, q) ==
    IF s = << >> THEN << >> ELSE ReprTok(Head(s), q) \o ReprBody(Tail(s), q)

\* repr() of an attribute value: None, or the quoted and escaped string
Repr(attr) ==
    IF attr.has
    THEN LET q == ReprQuote(attr.src) IN <<q>> \o ReprBody(attr.src, q) \o <<q>>
    ELSE <<"None">>

\* repr() of the exception raised at a site
ReprExc(site) == <<"Error(", site[1], ")">>

\* str() of a bool inside an f-string
PyBool(b) == IF b THEN "True" ELSE "False"

\* ------------------------------------------------------------------- sites
\* pw_start, pw_stop: entering and leaving `async with async_playwright()`
UnguardedSites ==
    { <<"pw_start", 0>>, <<"launch", 0>>, <<"new_context", 0>>, <<"new_page", 0>>,
      <<"goto_root", 0>>, <<"regoto", 0>>, <<"close", 0>>, <<"pw_stop", 0>> }
IframeSites ==
    { <<"q_iframe", 0>>, <<"get_src", 0>>, <<"new_page2", 0>>, <<"goto_iframe", 0>> }
LoginSites ==
    { <<"q_user", 0>>, <<"q_pass", 0>>, <<"fill_user", 0>>, <<"fill_pass", 0>>,
      <<"click_login", 0>> }
DispatchSites ==
    { <<"q_ta", i>> : i \in DOMAIN TEXTAREA_CANDIDATES }
    \cup { <<"fill", j>> : j \in 1..MaxInputs }
    \cup { <<"q_btn", i>> : i \in DOMAIN BUTTON_CANDIDATES }
    \cup { <<"click", j>> : j \in 1..MaxButtons }
ExtractSites ==
    { <<"query_all", i>> : i \in DOMAIN OUTPUT_CANDIDATES }
    \cup { <<"inner_text", j>> : j \in 1..MaxNodes }
    \cup { <<"body", 0>>, <<"content", 0>> }

\* ------------------------------------------------ ensure_in_iframe_context
\* lines 57-65: the iframe src made an absolute URL
NormalizeSrc(raw) ==
    LET s == RStripTok(LStripTok(raw)) IN
    IF StartsWith(s, <<"/", "/">>) THEN <<"http", "s:">> \o s
    ELSE IF StartsWith(s, <<"/">>) THEN RStripSlash(ROOT_URL) \o s
    ELSE IF ~StartsWith(s, <<"http">>) THEN RStripSlash(ROOT_URL) \o <<"/">> \o s
    ELSE s

\* lines 76-78 absent: the exception leaves the function
IframeError_raise(site, log) ==
    [ret |-> "page", opened |-> site = <<"goto_iframe", 0>>, url |-> << >>,
     log |-> log, ms |-> 0, raised |-> TRUE, exc |-> site]

\* lines 76-78: the except clause; raised: whether the exception leaves the function
IframeError(site, log) ==
    [ret |-> "page", opened |-> site = <<"goto_iframe", 0>>, url |-> << >>,
     log |-> Append(log, <<"iframe handling error: ">> \o ReprExc(site)),
     ms |-> 0, raised |-> FALSE, exc |-> site]

\* ifr: << >> (the root page has no iframe) or <<attr>>, attr the src attribute
ensure_in_iframe_context(ifr, pl, log) ==
    IF <<"q_iframe", 0>> \in pl THEN IframeError(<<"q_iframe", 0>>, log)
    ELSE IF ifr = << >> THEN
        [ret |-> "page", opened |-> FALSE, url |-> << >>,
         log |-> Append(log, <<"no iframe found on root page">>), ms |-> 0,
         raised |-> FALSE, exc |-> << >>]
    ELSE IF <<"get_src", 0>> \in pl THEN IframeError(<<"get_src", 0>>, log)
    ELSE
      LET attr == ifr[1]
          log1 == Append(log, <<"found iframe src raw: ">> \o Repr(attr))
      IN
      IF ~attr.has \/ attr.src = << >> THEN
        [ret |-> "page", opened |-> FALSE, url |-> << >>,
         log |-> Append(log1, <<"iframe src empty -> staying on parent page">>),
         ms |-> 0, raised |-> FALSE, exc |-> << >>]
      ELSE
        LET src == NormalizeSrc(attr.src)
            log2 == Append(log1, <<"navigating into iframe URL: ">> \o src)
        IN
        IF <<"new_page2", 0>> \in pl THEN IframeError(<<"new_page2", 0>>, log2)
        ELSE IF <<"goto_iframe", 0>> \in pl
             THEN IframeError(<<"goto_iframe", 0>>, log2)
        ELSE
          [ret |-> "new_page", opened |-> TRUE, url |-> src,
           log |-> Append(log2, <<"in-iframe page url after goto: ">> \o src),
           ms |-> IFRAME_SETTLE_MS, raised |-> FALSE, exc |-> << >>]

\* ----------------------------------------------------- try_login_if_present
\* one guarded call of lines 88-102: the entry it appends
Guarded(site, pl, ok, err) ==
    IF site \in pl THEN err \o ReprExc(site) ELSE ok

\* f: the login form of the page, [user, pass: whether the input exists];
\* c: [user, pass]: BV_USER and BV_PASS, "" when unset
try_login_if_present(f, c, url, pl, log) ==
    IF <<"q_user", 0>> \in pl \/ <<"q_pass", 0>> \in pl THEN
        [done |-> FALSE, ms |-> 0, filledUser |-> FALSE, filledPass |-> FALSE,
         submitted |-> FALSE,
         log |-> Append(log, <<"login check error: ">>
                   \o ReprExc(IF <<"q_user", 0>> \in pl THEN <<"q_user", 0>>
                              ELSE <<"q_pass", 0>>))]
    ELSE IF f.user /\ f.pass /\ c.user # "" /\ c.pass # "" THEN
        [done |-> TRUE, ms |-> LOGIN_SETTLE_MS,
         filledUser |-> <<"fill_user", 0>> \notin pl,
         filledPass |-> <<"fill_pass", 0>> \notin pl,
         submitted |-> <<"click_login", 0>> \notin pl,
         log |-> log \o
           << <<"login inputs detected inside iframe/page -> attempting login">>,
              Guarded(<<"fill_user", 0>>, pl, <<"filled username in iframe">>,
                      <<"username fill error: ">>),
              Guarded(<<"fill_pass", 0>>, pl, <<"filled password in iframe">>,
                      <<"password fill error: ">>),
              Guarded(<<"click_login", 0>>, pl, <<"clicked login button in iframe">>,
                      <<"login click error in iframe: ">>),
              <<"url after iframe login attempt: ">> \o url >>]
    ELSE
        [done |-> FALSE, ms |-> 0, filledUser |-> FALSE, filledPass |-> FALSE,
         submitted |-> FALSE,
         log |-> Append(log,
           <<"no login inputs detected inside iframe/page (or BV_USER/BV_PASS missing)">>)]

\* ------------------------------------------------------- fill_and_click_app
\* a textarea element: [st: inside div[data-testid='stTextArea'], value]
\* a button element: [st: data-testid='stButton', analyze: has the text
\* 'Analyze', clicks]
MatchesInput(i, e) == IF i = 1 THEN TRUE ELSE e.st
MatchesButton(i, b) == IF i = 1 THEN b.st ELSE IF i = 2 THEN b.analyze ELSE TRUE

\* page.query_selector(sel): the first matching element in document order, 0: None
QueryInput(i, tas) ==
    LET S == {j \in DOMAIN tas : MatchesInput(i, tas[j])}
    IN IF S = {} THEN 0 ELSE CHOOSE j \in S : \A k \in S : j <= k

QueryButton(i, btns) ==
    LET S == {j \in DOMAIN btns : MatchesButton(i, btns[j])}
    IN IF S = {} THEN 0 ELSE CHOOSE j \in S : \A k \in S : j <= k

\* lines 118-127, a fill loop that goes on after a successful fill
RECURSIVE FillLoop_nobreak(_, _, _, _, _, _)
FillLoop_nobreak(i, tas, text_, pl, log, done) ==
    IF i > Len(TEXTAREA_CANDIDATES) THEN [tas |-> tas, filled |-> done, log |-> log]
    ELSE
      LET sel == TEXTAREA_CANDIDATES[i]
          j == QueryInput(i, tas)
          err(site) == Append(log, <<"fill error ", sel, ": ">> \o ReprExc(site))
      IN
      IF <<"q_ta", i>> \in pl
      THEN FillLoop_nobreak(i + 1, tas, text_, pl, err(<<"q_ta", i>>), done)
      ELSE IF j = 0 THEN FillLoop_nobreak(i + 1, tas, text_, pl, log, done)
      ELSE IF <<"fill", j>> \in pl
      THEN FillLoop_nobreak(i + 1, tas, text_, pl, err(<<"fill", j>>), done)
      ELSE FillLoop_nobreak(i + 1, [tas EXCEPT ![j].value = text_], text_, pl,
                            Append(log, <<"filled using selector: ", sel>>), TRUE)

\* lines 118-127, a loop that fills a synthesized element when none was found
RECURSIVE FillLoop_fallback(_, _, _, _, _, _)
FillLoop_fallback(i, tas, text_, pl, log, done) ==
    IF i > Len(TEXTAREA_CANDIDATES)
    THEN [tas |-> Append(tas, [st |-> FALSE, value |-> text_]), filled |-> done,
          log |-> log]
    ELSE
      LET sel == TEXTAREA_CANDIDATES[i]
          j == QueryInput(i, tas)
          err(site) == Append(log, <<"fill error ", sel, ": ">> \o ReprExc(site))
      IN
      IF <<"q_ta", i>> \in pl
      THEN FillLoop_fallback(i + 1, tas, text_, pl, err(<<"q_ta", i>>), done)
      ELSE IF j = 0 THEN FillLoop_fallback(i + 1, tas, text_, pl, log, done)
      ELSE IF <<"fill", j>> \in pl
      THEN FillLoop_fallback(i + 1, tas, text_, pl, err(<<"fill", j>>), done)
      ELSE [tas |-> [tas EXCEPT ![j].value = text_], filled |-> TRUE,
            log |-> Append(log, <<"filled using selector: ", sel>>)]

\* lines 118-127: the selectors from the i-th on; done: the value of `filled`
RECURSIVE FillLoop(_, _, _, _, _, _)
FillLoop(i, tas, text_, pl, log, done) ==
    IF i > Len(TEXTAREA_CANDIDATES) THEN [tas |-> tas, filled |-> done, log |-> log]
    ELSE
      LET sel == TEXTAREA_CANDIDATES[i]
          j == QueryInput(i, tas)
          err(site) == Append(log, <<"fill error ", sel, ": ">> \o ReprExc(site))
      IN
      IF <<"q_ta", i>> \in pl
      THEN FillLoop(i + 1, tas, text_, pl, err(<<"q_ta", i>>), done)
      ELSE IF j = 0 THEN FillLoop(i + 1, tas, text_, pl, log, done)
      ELSE IF <<"fill", j>> \in pl
      THEN FillLoop(i + 1, tas, text_, pl, err(<<"fill", j>>), done)
      ELSE [tas |-> [tas EXCEPT ![j].value = text_], filled |-> TRUE,
            log |-> Append(log, <<"filled using selector: ", sel>>)]

\* lines 129-138
RECURSIVE ClickLoop(_, _, _, _, _)
ClickLoop(i, btns, pl, log, done) ==
    IF i > Len(BUTTON_CANDIDATES) THEN [btns |-> btns, clicked |-> done, log |-> log]
    ELSE
      LET sel == BUTTON_CANDIDATES[i]
          j == QueryButton(i, btns)
          err(site) == Append(log, <<"button click error ", sel, ": ">> \o ReprExc(site))
      IN
      IF <<"q_btn", i>> \in pl
      THEN ClickLoop(i + 1, btns, pl, err(<<"q_btn", i>>), done)
      ELSE IF j = 0 THEN ClickLoop(i + 1, btns, pl, log, done)
      ELSE IF <<"click", j>> \in pl
      THEN ClickLoop(i + 1, btns, pl, err(<<"click", j>>), done)
      ELSE [btns |-> [btns EXCEPT ![j].clicks = @ + 1], clicked |-> TRUE,
            log |-> Append(log, <<"clicked button using selector: ", sel>>)]

fill_and_click_app(tas, btns, text_, pl, log) ==
    LET f == FillLoop(1, tas, text_, pl, log, FALSE)
        c == ClickLoop(1, btns, pl, f.log, FALSE)
    IN [tas |-> f.tas, btns |-> c.btns, filled |-> f.filled, clicked |-> c.clicked,
        log |-> c.log]

\* line 199, a log entry with the two flags exchanged
FlagsEntry_swapped(f, c) == <<"filled=", PyBool(c), ", clicked=", PyBool(f)>>

\* line 199: f"filled={filled}, clicked={clicked}"
FlagsEntry(f, c) == <<"filled=", PyBool(f), ", clicked=", PyBool(c)>>

\* ----------------------------------------------------------- extract_output
\* an output node: [kind: "cls" (div.stMarkdown), "testid"
\* (div[data-testid='stMarkdown']), "both" or "pre"; text: its inner text]
MatchesOutput(i, n) ==
    IF i = 1 THEN n.kind \in {"cls", "both"}
    ELSE IF i = 2 THEN n.kind \in {"testid", "both"}
    ELSE n.kind = "pre"

\* line 149 without the membership test
Keep_nodedup(t, texts_) == t # << >>

\* line 149: t and t not in texts
Keep(t, texts_) == t # << >> /\ ~InSeq(t, texts_)

\* line 145: page.query_selector_all(sel), the handles of the matching nodes in
\* document order; a handle is [j: the node's position, node: the node]
QueryAll(i, out) ==
    SelectSeq([j \in DOMAIN out |-> [j |-> j, node |-> out[j]]],
              LAMBDA h : MatchesOutput(i, h.node))

\* lines 147-153: one node of selector i, read through its handle h
ReadNode(i, h, pl, acc) ==
    IF <<"inner_text", h.j>> \in pl
    THEN [acc EXCEPT !.log = Append(@, <<"inner_text error ", OUTPUT_CANDIDATES[i], ": ">>
                                       \o ReprExc(<<"inner_text", h.j>>))]
    ELSE
      LET t == Strip(h.node.text) IN
      IF Keep(t, acc.texts)
      THEN [texts |-> Append(acc.texts, t),
            log |-> Append(acc.log, <<"extracted using ", OUTPUT_CANDIDATES[i]>>)]
      ELSE acc

\* lines 154-155
QueryError(i, log) ==
    Append(log, <<"query_all error ", OUTPUT_CANDIDATES[i], ": ">>
                \o ReprExc(<<"query_all", i>>))

\* line 158 without the slice
BodySlice_whole(body) == body

\* line 158: (...)[:120000]
BodySlice(body) == Take(body, MAX_CHARS)

\* lines 157-162 left out of the pass
BodyFallback_none(acc, body, pl) == acc

\* lines 157-162
BodyFallback(acc, body, pl) ==
    IF <<"body", 0>> \in pl
    THEN [acc EXCEPT !.log = Append(@, <<"body fallback error: ">>
                                       \o ReprExc(<<"body", 0>>))]
    ELSE [texts |-> Append(acc.texts, BodySlice(body)),
          log |-> Append(acc.log, <<"body fallback extracted">>)]

\* line 206 with >= for >
Sufficient_ge(output_) == output_ # << >> /\ TLen(output_) >= MIN_OUTPUT

\* line 206: output and len(output) > 10
Sufficient(output_) == output_ # << >> /\ TLen(output_) > MIN_OUTPUT

\* ------------------------------------------------------------------- state
VARIABLES
    payload,      \* the request body of POST /validate
    plan,         \* the sites that raise during this request
    iframe,       \* the root page's iframe: << >> or <<[has, src]>>
    form,         \* the login inputs of the page: [user, pass]
    creds,        \* BV_USER, BV_PASS: [user, pass], "" when unset
    dom,          \* the working page: [tas, btns, out, body, markup]
    later,        \* what the remote app renders later: [out, body]
    rendered,     \* whether it has rendered it
    passMs,       \* how long one extraction pass takes
    pc,           \* the position in validate / run_proxy
    text,         \* validate's `text`
    debug,        \* run_proxy's `debug`
    responses,    \* the responses returned to the caller, in order
    clock,        \* time.time(), in ms
    tstart,       \* run_proxy's `tstart`
    browserOpen,  \* a browser launched and not closed
    urls,         \* page.url and new_page.url
    inner_page,   \* "page" or "new_page"
    app_page,     \* "page" or "new_page"
    login,        \* what try_login_if_present did to the form
    filled,
    clicked,
    output,       \* run_proxy's `output`
    sel,          \* extract_output's position in OUTPUT_CANDIDATES, 0: not in a pass
    handles,      \* extract_output's `nodes` still to read
    texts,        \* extract_output's `texts`
    snapshot,
    seen,         \* history: what the last pass read, [reads, body]
    launches,     \* history: browser launches attempted
    navs,         \* history: page.goto calls made
    passes,       \* history: extraction passes run
    sleeps        \* history: poll sleeps taken

vars == <<payload, plan, iframe, form, creds, dom, later, rendered, passMs, pc, text,
          debug, responses, clock, tstart, browserOpen, urls, inner_page, app_page,
          login, filled, clicked, output, sel, handles, texts, snapshot, seen,
          launches, navs, passes, sleeps>>

envVars == <<payload, plan, iframe, form, creds, later, passMs>>

\* ------------------------------------------------------------ environments
RECURSIVE SubsetsUpTo(_, _)
SubsetsUpTo(S, n) ==
    IF n = 0 THEN {{}}
    ELSE LET R == SubsetsUpTo(S, n - 1) IN R \cup { P \cup {x} : P \in R, x \in S }
SeqsUpTo(S, n) == UNION {[1..k -> S] : k \in 0..n}

CallerText == "hello"
LongText(c) == Rep(c, MIN_OUTPUT + 1)

DefaultTas == << [st |-> FALSE, value |-> ""] >>
DefaultBtns == << [st |-> FALSE, analyze |-> TRUE, clicks |-> 0] >>
DefaultDom ==
    [tas |-> DefaultTas, btns |-> DefaultBtns, out |-> << >>,
     body |-> LongText("x"), markup |-> Rep("<", 50)]
NoRender(d) == [out |-> d.out, body |-> d.body]
DefaultEnv ==
    [payload |-> [text |-> CallerText], plan |-> {}, iframe |-> << >>,
     form |-> [user |-> FALSE, pass |-> FALSE], creds |-> [user |-> "u", pass |-> "p"],
     dom |-> DefaultDom, later |-> NoRender(DefaultDom), passMs |-> 0]

InitEnv(e) ==
    /\ payload = e.payload
    /\ plan = e.plan
    /\ iframe = e.iframe
    /\ form = e.form
    /\ creds = e.creds
    /\ dom = e.dom
    /\ later = e.later
    /\ passMs = e.passMs

\* requests: with and without the key, empty and not; small and large markup
EnvInput ==
    \E p \in { [other |-> "x"], [text |-> ""], [text |-> CallerText],
               [text |-> CallerText, other |-> "x"] },
       m \in { Rep("<", 50), Rep("<", MAX_CHARS + 1) } :
        InitEnv([DefaultEnv EXCEPT !.payload = p, !.dom.markup = m])

IframeSrcs ==
    { << >>, <<" ">>, <<"/", "/", "app.example">>, <<"/", "embed">>, <<"embed">>,
      <<"http", "://other.example">>, <<"\t", "/", "embed", "/", "\r", "\n">>,
      <<"it", "'", "s">>, <<"a", "\"", "b", "'", "c">>, <<"a", "\n", "b", "\\", "c">> }
Iframes ==
    { << >>, << [has |-> FALSE, src |-> << >>] >> }
    \cup { << [has |-> TRUE, src |-> s] >> : s \in IframeSrcs }

\* Session Bootstrap: iframes, login forms, credentials, failing calls
EnvBoot ==
    \E i \in Iframes,
       f \in { [user |-> FALSE, pass |-> FALSE], [user |-> TRUE, pass |-> TRUE],
               [user |-> TRUE, pass |-> FALSE] },
       c \in { [user |-> "u", pass |-> "p"], [user |-> "u", pass |-> ""] },
       pl \in SubsetsUpTo(UnguardedSites \cup IframeSites \cup LoginSites, MaxFaults) :
        InitEnv([DefaultEnv EXCEPT !.iframe = i, !.form = f, !.creds = c, !.plan = pl])

\* Input Dispatch: the page's textareas and buttons, failing calls
EnvDispatch ==
    \E t \in SeqsUpTo({ [st |-> x, value |-> ""] : x \in BOOLEAN }, MaxInputs),
       b \in SeqsUpTo({ [st |-> x, analyze |-> y, clicks |-> 0] :
                            x \in BOOLEAN, y \in BOOLEAN }, MaxButtons),
       pl \in SubsetsUpTo(DispatchSites, MaxFaults) :
        InitEnv([DefaultEnv EXCEPT !.dom.tas = t, !.dom.btns = b, !.plan = pl])

TextA == LongText("a")
TextB == Rep("b", MIN_OUTPUT + 2)
Padded(t) == << <<" ", 1>> >> \o t \o << <<"\r", 1>>, <<"\n", 1>> >>
Blank == << <<"\\xa0", 1>>, <<"\f", 2>> >>
Nodes ==
    { [kind |-> "cls", text |-> TextA], [kind |-> "testid", text |-> Padded(TextA)],
      [kind |-> "both", text |-> TextA], [kind |-> "pre", text |-> TextB],
      [kind |-> "pre", text |-> Blank], [kind |-> "cls", text |-> Padded(TextB)],
      [kind |-> "testid", text |-> TextB], [kind |-> "both", text |-> << >>] }

\* Output Harvest, one pass: output containers, failing calls
EnvHarvest ==
    \E o \in SeqsUpTo(Nodes, MaxNodes),
       pl \in SubsetsUpTo(ExtractSites, MaxFaults) :
        InitEnv([DefaultEnv EXCEPT !.dom.out = o, !.later.out = o, !.plan = pl])

Bodies == { << >>, Rep("x", MIN_OUTPUT), LongText("x"), Rep("x", MAX_CHARS + 1) }
ShortNode == [kind |-> "cls", text |-> Rep("k", 3)]
LongNode == [kind |-> "pre", text |-> TextB]

\* Output Harvest, the poll loop: body texts, output rendered later, slow passes
EnvPoll ==
    \E b \in Bodies,
       l \in { << >>, <<LongNode>> },
       ms \in { 0, MaxPassMs },
       pl \in SubsetsUpTo({ <<"body", 0>>, <<"content", 0>> }, MaxFaults) :
        InitEnv([DefaultEnv EXCEPT !.dom.body = b, !.passMs = ms, !.plan = pl,
                   !.later = [out |-> l,
                              body |-> IF l = << >> THEN b ELSE Cat(b, l[1].text)]])

\* Output Harvest, the poll loop: a short output that stays, is replaced or is
\* joined by another one
EnvRerender ==
    \E o \in { <<ShortNode>>, <<ShortNode, LongNode>>, <<LongNode>>,
               <<[ShortNode EXCEPT !.kind = "testid"]>> } :
        InitEnv([DefaultEnv EXCEPT !.dom.out = <<ShortNode>>,
                   !.dom.body = ShortNode.text,
                   !.later = [out |-> o, body |-> o[Len(o)].text]])

Init ==
    /\ EnvInput \/ EnvBoot \/ EnvDispatch \/ EnvHarvest \/ EnvPoll \/ EnvRerender
    /\ rendered = FALSE
    /\ pc = "request"
    /\ text = ""
    /\ debug = << >>
    /\ responses = << >>
    /\ clock = 0
    /\ tstart = 0
    /\ browserOpen = FALSE
    /\ urls = [page |-> << >>, new_page |-> << >>]
    /\ inner_page = "page"
    /\ app_page = "page"
    /\ login = [done |-> FALSE, filledUser |-> FALSE, filledPass |-> FALSE,
                submitted |-> FALSE]
    /\ filled = FALSE
    /\ clicked = FALSE
    /\ output = << >>
    /\ sel = 0
    /\ handles = << >>
    /\ texts = << >>
    /\ snapshot = << >>
    /\ seen = [reads |-> << >>, body |-> << >>]
    /\ launches = 0
    /\ navs = 0
    /\ passes = 0
    /\ sleeps = 0

\* -------------------------------------------------------------- responses
\* line 226 with a default that is not empty
payload_get_default(p) == IF "text" \in DOMAIN p THEN p.text ELSE "undefined"

\* line 226: payload.get("text", "")
payload_get(p) == IF "text" \in DOMAIN p THEN p.text ELSE ""

\* line 227: the truth value of a string
Truthy(t) == t # ""

\* line 228
InputError == [error |-> "No text provided"]

\* line 220 with a log that was not kept
ErrorResponse_nolog(chain, log) ==
    [error |-> "proxy_exception", trace |-> chain, debug |-> << >>]

\* line 220; the trace names the calls that raised, as traceback.format_exc()
\* prints them: the exception that reached the handler last, before it the
\* exception during whose handling it was raised
ErrorResponse(chain, log) ==
    [error |-> "proxy_exception", trace |-> chain, debug |-> log]

\* line 218
ResultResponse(out_, log, url, snap) ==
    [result |-> out_, debug |-> log, page_url_after |-> url, snapshot_snippet |-> snap]

IsError(r) == "trace" \in DOMAIN r
IsResult(r) == "result" \in DOMAIN r

\* line 168, __aexit__: an exception leaves the `async with` block; leaving it
\* may raise in turn
Chain(site) ==
    IF <<"pw_stop", 0>> \in plan THEN <<site[1], "pw_stop">> ELSE <<site[1]>>

\* lines 219-220: an exception raised inside the block reaches run_proxy's handler
Raise(site, log) ==
    /\ responses' = Append(responses, ErrorResponse(Chain(site), log))
    /\ pc' = "done"

pageVars == <<dom, rendered>>
pollVars == <<output, sel, handles, texts, seen, passes, sleeps, tstart>>
bootVars == <<urls, inner_page, app_page, login>>

\* ----------------------------------------------------------------- actions
\* lines 224-229
Validate ==
    /\ pc = "request"
    /\ text' = payload_get(payload)
    /\ IF ~Truthy(text')
       THEN /\ responses' = Append(responses, InputError)
            /\ pc' = "done"
       ELSE /\ responses' = responses
            /\ pc' = "launch"
    /\ UNCHANGED <<envVars, pageVars, pollVars, bootVars, debug, clock, browserOpen,
                   filled, clicked, snapshot, launches, navs>>

\* lines 166-174
Launch ==
    /\ pc = "launch"
    /\ launches' = launches + (IF <<"pw_start", 0>> \in plan THEN 0 ELSE 1)
    /\ IF <<"pw_start", 0>> \in plan
       THEN /\ responses' = Append(responses, ErrorResponse(<<"pw_start">>, debug))
            /\ pc' = "done"
            /\ UNCHANGED <<browserOpen, debug>>
       ELSE IF <<"launch", 0>> \in plan
       THEN Raise(<<"launch", 0>>, debug) /\ UNCHANGED <<browserOpen, debug>>
       ELSE IF <<"new_context", 0>> \in plan
       THEN Raise(<<"new_context", 0>>, debug) /\ browserOpen' = TRUE
            /\ UNCHANGED debug
       ELSE IF <<"new_page", 0>> \in plan
       THEN Raise(<<"new_page", 0>>, debug) /\ browserOpen' = TRUE
            /\ UNCHANGED debug
       ELSE /\ browserOpen' = TRUE
            /\ debug' = Append(debug, <<"navigating to root/login wrapper">>)
            /\ pc' = "goto_root"
            /\ UNCHANGED responses
    /\ UNCHANGED <<envVars, pageVars, pollVars, bootVars, text, clock, filled, clicked,
                   snapshot, navs>>

\* lines 175-176
GotoRoot ==
    /\ pc = "goto_root"
    /\ navs' = navs + 1
    /\ IF <<"goto_root", 0>> \in plan
       THEN Raise(<<"goto_root", 0>>, debug) /\ UNCHANGED <<urls, clock>>
       ELSE /\ urls' = [urls EXCEPT !.page = ROOT_URL]
            /\ clock' = clock + ROOT_SETTLE_MS
            /\ pc' = "iframe"
            /\ UNCHANGED responses
    /\ UNCHANGED <<envVars, pageVars, pollVars, inner_page, app_page, login, text,
                   debug, browserOpen, filled, clicked, snapshot, launches>>

\* line 178
EnsureIframe ==
    /\ pc = "iframe"
    /\ LET r == ensure_in_iframe_context(iframe, plan, debug) IN
         /\ debug' = r.log
         /\ navs' = navs + (IF r.opened THEN 1 ELSE 0)
         /\ IF r.raised
            THEN Raise(r.exc, r.log) /\ UNCHANGED <<urls, inner_page, clock>>
            ELSE /\ inner_page' = r.ret
                 /\ urls' = [urls EXCEPT !.new_page = r.url]
                 /\ clock' = clock + r.ms
                 /\ pc' = "login"
                 /\ UNCHANGED responses
    /\ UNCHANGED <<envVars, pageVars, pollVars, app_page, login, text, browserOpen,
                   filled, clicked, snapshot, launches>>

\* lines 181-184
TryLogin ==
    /\ pc = "login"
    /\ LET r == try_login_if_present(form, creds, urls[inner_page], plan, debug) IN
         /\ debug' = r.log
         /\ login' = [done |-> r.done, filledUser |-> r.filledUser,
                      filledPass |-> r.filledPass, submitted |-> r.submitted]
         /\ clock' = clock + r.ms + (IF r.done THEN POST_LOGIN_MS ELSE 0)
    /\ pc' = "select"
    /\ UNCHANGED <<envVars, pageVars, pollVars, urls, inner_page, app_page, text,
                   responses, browserOpen, filled, clicked, snapshot, launches, navs>>

\* lines 188-195
SelectAppPage ==
    /\ pc = "select"
    /\ app_page' = inner_page
    /\ IF inner_page # "page"
       THEN /\ debug' = Append(debug, <<"current page url before app actions: ">>
                                      \o urls[inner_page])
            /\ pc' = "dispatch"
            /\ UNCHANGED <<navs, clock, responses>>
       ELSE /\ navs' = navs + 1
            /\ IF <<"regoto", 0>> \in plan
               THEN Raise(<<"regoto", 0>>, debug) /\ UNCHANGED <<debug, clock>>
               ELSE /\ clock' = clock + ROOT_SETTLE_MS
                    /\ debug' = Append(debug, <<"current page url before app actions: ">>
                                              \o urls.page)
                    /\ pc' = "dispatch"
                    /\ UNCHANGED responses
    /\ UNCHANGED <<envVars, pageVars, pollVars, urls, inner_page, login, text,
                   browserOpen, filled, clicked, snapshot, launches>>

\* lines 198-203
Dispatch ==
    /\ pc = "dispatch"
    /\ LET r == fill_and_click_app(dom.tas, dom.btns, text, plan, debug) IN
         /\ dom' = [dom EXCEPT !.tas = r.tas, !.btns = r.btns]
         /\ filled' = r.filled
         /\ clicked' = r.clicked
         /\ debug' = Append(r.log, FlagsEntry(r.filled, r.clicked))
    /\ tstart' = clock
    /\ output' = << >>
    /\ pc' = "poll"
    /\ UNCHANGED <<envVars, rendered, sel, handles, texts, seen, passes, sleeps,
                   bootVars, text, responses, clock, browserOpen, snapshot, launches,
                   navs>>

\* lines 204-205 and 142: the loop test; a pass starts with no texts
PollGuard ==
    /\ pc = "poll"
    /\ IF clock - tstart < timeout_s * 1000
       THEN /\ pc' = "query"
            /\ sel' = 1
            /\ texts' = << >>
            /\ seen' = [reads |-> << >>, body |-> << >>]
       ELSE /\ pc' = "snapshot"
            /\ UNCHANGED <<sel, texts, seen>>
    /\ UNCHANGED <<envVars, pageVars, output, handles, passes, sleeps, tstart, bootVars,
                   text, debug, responses, clock, browserOpen, filled, clicked, snapshot,
                   launches, navs>>

\* lines 163 and 205-208: the pass returns the joined texts to the loop
Finish(texts_, log) ==
    LET out_ == Join(SEPARATOR, texts_) IN
    /\ output' = out_
    /\ sel' = 0
    /\ passes' = passes + 1
    /\ clock' = clock + passMs
    /\ IF Sufficient(out_)
       THEN /\ debug' = Append(log, <<"sufficient output found">>)
            /\ pc' = "snapshot"
       ELSE /\ debug' = log
            /\ pc' = "sleep"

\* lines 143 and 156: after selector i, the next selector, the body fallback or
\* the end of the pass
Advance(i, texts_, log) ==
    IF i < Len(OUTPUT_CANDIDATES)
    THEN /\ pc' = "query"
         /\ sel' = i + 1
         /\ debug' = log
         /\ UNCHANGED <<output, passes, clock>>
    ELSE IF texts_ = << >>
    THEN /\ pc' = "body"
         /\ debug' = log
         /\ UNCHANGED <<sel, output, passes, clock>>
    ELSE Finish(texts_, log)

\* lines 144-146, 154-155: the nodes of one selector are looked up
QueryNodes ==
    /\ pc = "query"
    /\ IF <<"query_all", sel>> \in plan
       THEN /\ handles' = << >>
            /\ Advance(sel, texts, QueryError(sel, debug))
       ELSE LET hs == QueryAll(sel, dom.out) IN
            /\ handles' = hs
            /\ IF hs = << >>
               THEN Advance(sel, texts, debug)
               ELSE /\ pc' = "read"
                    /\ UNCHANGED <<sel, debug, output, passes, clock>>
    /\ UNCHANGED <<envVars, pageVars, texts, seen, sleeps, tstart, bootVars, text,
                   responses, browserOpen, filled, clicked, snapshot, launches, navs>>

\* lines 147-153: the text of one node is read
ReadText ==
    /\ pc = "read"
    /\ LET h == Head(handles)
           r == ReadNode(sel, h, plan, [texts |-> texts, log |-> debug])
       IN
       /\ texts' = r.texts
       /\ handles' = Tail(handles)
       /\ seen' = IF <<"inner_text", h.j>> \in plan THEN seen
                  ELSE [seen EXCEPT !.reads =
                          Append(@, [sel |-> sel, text |-> h.node.text])]
       /\ IF Tail(handles) # << >>
          THEN /\ debug' = r.log
               /\ UNCHANGED <<pc, sel, output, passes, clock>>
          ELSE Advance(sel, r.texts, r.log)
    /\ UNCHANGED <<envVars, pageVars, sleeps, tstart, bootVars, text, responses,
                   browserOpen, filled, clicked, snapshot, launches, navs>>

\* lines 157-163: the body text is read
ReadBody ==
    /\ pc = "body"
    /\ LET r == BodyFallback([texts |-> texts, log |-> debug], dom.body, plan) IN
       /\ texts' = r.texts
       /\ Finish(r.texts, r.log)
    /\ seen' = IF <<"body", 0>> \in plan THEN seen
               ELSE [seen EXCEPT !.body = <<dom.body>>]
    /\ UNCHANGED <<envVars, pageVars, handles, sleeps, tstart, bootVars, text,
                   responses, browserOpen, filled, clicked, snapshot, launches, navs>>

\* line 209
PollSleep ==
    /\ pc = "sleep"
    /\ clock' = clock + POLL_SLEEP_MS
    /\ sleeps' = sleeps + 1
    /\ pc' = "poll"
    /\ UNCHANGED <<envVars, pageVars, output, sel, handles, texts, seen, passes, tstart,
                   bootVars, text, debug, responses, browserOpen, filled, clicked,
                   snapshot, launches, navs>>

\* the remote application renders its output, between two awaited calls of the
\* proxy after the click: output nodes are replaced, the body text follows
Render ==
    /\ pc \in {"poll", "query", "read", "body", "sleep", "snapshot"}
    /\ ~rendered
    /\ later # [out |-> dom.out, body |-> dom.body]
    /\ dom' = [dom EXCEPT !.out = later.out, !.body = later.body]
    /\ rendered' = TRUE
    /\ UNCHANGED <<envVars, pollVars, bootVars, pc, text, debug, responses, clock,
                   browserOpen, filled, clicked, snapshot, launches, navs>>

\* lines 211-215
Snapshot ==
    /\ pc = "snapshot"
    /\ IF <<"content", 0>> \in plan
       THEN /\ debug' = Append(debug, <<"snapshot error: ">> \o ReprExc(<<"content", 0>>))
            /\ snapshot' = << >>
       ELSE /\ snapshot' = Take(dom.markup, MAX_CHARS)
            /\ debug' = debug
    /\ pc' = "close"
    /\ UNCHANGED <<envVars, pageVars, pollVars, bootVars, text, responses, clock,
                   browserOpen, filled, clicked, launches, navs>>

\* lines 217-218 and 168: the browser is closed, the block is left
CloseAndReturn ==
    /\ pc = "close"
    /\ IF <<"close", 0>> \in plan
       THEN Raise(<<"close", 0>>, debug) /\ UNCHANGED browserOpen
       ELSE /\ browserOpen' = FALSE
            /\ responses' = Append(responses,
                 IF <<"pw_stop", 0>> \in plan
                 THEN ErrorResponse(<<"pw_stop">>, debug)
                 ELSE ResultResponse(output, debug, urls[app_page], snapshot))
            /\ pc' = "done"
    /\ UNCHANGED <<envVars, pageVars, pollVars, bootVars, text, debug, clock, filled,
                   clicked, snapshot, launches, navs>>

Next ==
    \/ Validate
    \/ Launch
    \/ GotoRoot
    \/ EnsureIframe
    \/ TryLogin
    \/ SelectAppPage
    \/ Dispatch
    \/ PollGuard
    \/ QueryNodes
    \/ ReadText
    \/ ReadBody
    \/ PollSleep
    \/ Render
    \/ Snapshot
    \/ CloseAndReturn

Spec == Init /\ [][Next]_vars

\* ------------------------------------------------------- claim vocabulary
Done == pc = "done"
Resp == responses[1]
PostLoop == pc \in {"snapshot", "close", "done"} /\ passes >= 1
InPass == pc \in {"query", "read", "body"}
InLoop == InPass \/ pc \in {"poll", "sleep"}
PassDone == passes >= 1 /\ ~InPass

\* the log entries that start with the given piece
EntriesOf(log, piece) == SelectSeq(log, LAMBDA e : e[1] = piece)
HasEntry(piece) == EntriesOf(debug, piece) # << >>
AfterDispatch == HasEntry("filled=")

\* strategy i of the fill list finds an element / fills it
Resolves(i) ==
    /\ <<"q_ta", i>> \notin plan
    /\ \E j \in DOMAIN dom.tas : MatchesInput(i, dom.tas[j])
Target(i) ==
    CHOOSE j \in DOMAIN dom.tas :
        /\ MatchesInput(i, dom.tas[j])
        /\ \A k \in 1..(j - 1) : ~MatchesInput(i, dom.tas[k])
Succeeds(i) == Resolves(i) /\ <<"fill", Target(i)>> \notin plan
Holders == { j \in DOMAIN dom.tas : dom.tas[j].value = text }
FilledEntries == EntriesOf(debug, "filled using selector: ")

\* C1: a request whose payload has no 'text' key, or an empty 'text', gets the
\* input-error response and never enters run_proxy: no browser is launched, no
\* navigation happens, no log entry is appended.
C1_EmptyTextRejected ==
    ("text" \notin DOMAIN payload \/ payload.text = "") =>
        /\ pc \in {"request", "done"}
        /\ launches = 0 /\ navs = 0 /\ ~browserOpen /\ debug = << >>
        /\ Done => responses = << [error |-> "No text provided"] >>

C1_Witness ==
    /\ Done
    /\ "text" \notin DOMAIN payload
    /\ responses = << [error |-> "No text provided"] >>
    /\ launches = 0

\* C2 as stated: after fill_and_click_app, on a page exposing a recognized input
\* element the log holds exactly one 'filled using selector' entry and at most
\* one element is filled.
C2_Original ==
    (AfterDispatch /\ dom.tas # << >>) =>
        /\ Len(FilledEntries) = 1
        /\ Cardinality(Holders) <= 1

\* C2 amended: the fill strategies are tried in list order; one that matches
\* nothing or raises is skipped (a raise is logged); the first one whose element
\* exists and whose fill does not raise ends the iteration.  At most one element
\* is filled; the log holds exactly one 'filled using selector' entry, naming
\* that strategy's selector, when such a strategy exists and none otherwise.
C2_FirstFillWins ==
    AfterDispatch =>
        LET ok == { i \in DOMAIN TEXTAREA_CANDIDATES : Succeeds(i) }
            tried == IF ok = {} THEN DOMAIN TEXTAREA_CANDIDATES
                     ELSE { i \in DOMAIN TEXTAREA_CANDIDATES :
                              \A k \in ok : i < k }
        IN
        /\ Cardinality(Holders) <= 1
        /\ Len(FilledEntries) <= 1
        /\ filled = (ok # {})
        /\ ok = {} => FilledEntries = << >> /\ Holders = {}
        /\ ok # {} =>
             LET first == CHOOSE i \in ok : \A k \in ok : i <= k IN
             /\ FilledEntries =
                  << <<"filled using selector: ", TEXTAREA_CANDIDATES[first]>> >>
             /\ Holders = { Target(first) }
        /\ \A i \in tried :
             (<<"q_ta", i>> \in plan \/ (Resolves(i) /\ <<"fill", Target(i)>> \in plan))
             <=> \E k \in DOMAIN debug :
                   /\ debug[k][1] = "fill error "
                   /\ debug[k][2] = TEXTAREA_CANDIDATES[i]

C2_Witness ==
    /\ AfterDispatch
    /\ Len(dom.tas) = 2
    /\ <<"fill", 1>> \in plan
    /\ dom.tas[2].value = text
    /\ dom.tas[1].value = ""
    /\ FilledEntries = << <<"filled using selector: ", TEXTAREA_CANDIDATES[2]>> >>

\* C3 as stated: when no fill strategy resolves to an element, Input Dispatch
\* synthesizes a text area holding the caller's text, so that after dispatch some
\* element of the page holds it.
C3_Original ==
    (AfterDispatch /\ \A i \in DOMAIN TEXTAREA_CANDIDATES : ~Resolves(i)) =>
        \E j \in DOMAIN dom.tas : dom.tas[j].value = text

\* C3 amended: when no fill strategy resolves to an element, Input Dispatch
\* synthesizes nothing: no element is filled, no 'filled using selector' entry is
\* logged and filled is false, so after dispatch no element of the page holds the
\* caller's text.
C3_NoFallbackFill ==
    (AfterDispatch /\ \A i \in DOMAIN TEXTAREA_CANDIDATES : ~Resolves(i)) =>
        /\ \A j \in DOMAIN dom.tas : dom.tas[j].value = ""
        /\ ~filled
        /\ FilledEntries = << >>
        /\ EntriesOf(debug, "filled=")[1][2] = "False"

C3_Witness ==
    /\ AfterDispatch
    /\ dom.tas = << >>
    /\ ~filled
    /\ clicked

\* the (selector, node) pairs one pass reads on a page that holds still, and
\* their order
ReadPairs ==
    { p \in (DOMAIN OUTPUT_CANDIDATES) \X (DOMAIN dom.out) :
        /\ <<"query_all", p[1]>> \notin plan
        /\ MatchesOutput(p[1], dom.out[p[2]])
        /\ <<"inner_text", p[2]>> \notin plan }
Before(p, q) == p[1] < q[1] \/ (p[1] = q[1] /\ p[2] < q[2])
Rank(p) == 1 + Cardinality({ q \in ReadPairs : Before(q, p) })
\* the texts the last pass read from output nodes, trimmed
Trimmed(k) == Strip(seen.reads[k].text)
Distinct == { Trimmed(k) : k \in DOMAIN seen.reads } \ { << >> }
FirstSeen(t) ==
    CHOOSE k \in DOMAIN seen.reads :
        Trimmed(k) = t /\ \A l \in 1..(k - 1) : Trimmed(l) # t
RECURSIVE SumLen(_)
SumLen(ts) == IF ts = << >> THEN 0 ELSE TLen(Head(ts)) + SumLen(Tail(ts))
\* r is the text of the first TLen(r) characters of t
PrefixOf(r, t) ==
    \/ r = << >>
    \/ /\ Len(r) <= Len(t)
       /\ \A k \in 1..(Len(r) - 1) : r[k] = t[k]
       /\ r[Len(r)][1] = t[Len(r)][1]
       /\ r[Len(r)][2] <= t[Len(r)][2]
NoExtractEntry == ~HasEntry("extracted using ")

\* C4: one extract_output pass over the output selectors (every matching node of
\* every selector, in selector order) yields each distinct non-empty trimmed text
\* exactly once as a fragment of the joined result, in first-seen order, also
\* when several containers or several selectors expose the same text.  The
\* texts are those the pass reads: a query or a read that raises yields none.
C4_DedupFirstSeen ==
    /\ (PassDone /\ ~rendered) =>
         /\ Len(seen.reads) = Cardinality(ReadPairs)
         /\ \A p \in ReadPairs :
              seen.reads[Rank(p)] = [sel |-> p[1], text |-> dom.out[p[2]].text]
    /\ (PassDone /\ Distinct # {}) =>
         /\ Len(texts) = Cardinality(Distinct)
         /\ \A t \in Distinct :
              Cardinality({ k \in DOMAIN texts : texts[k] = t }) = 1
         /\ \A k, l \in DOMAIN texts :
              k < l => FirstSeen(texts[k]) < FirstSeen(texts[l])
         /\ TLen(output) = SumLen(texts) + (Len(texts) - 1) * TLen(SEPARATOR)
         /\ Take(output, TLen(texts[1])) = texts[1]

C4_Witness ==
    /\ PassDone
    /\ ~rendered
    /\ plan = {}
    /\ Len(dom.out) = 2
    /\ dom.out[1].kind = "both"
    /\ dom.out[2].text # dom.out[1].text
    /\ Len(seen.reads) = 3
    /\ texts = << Strip(dom.out[1].text) >>
    /\ output = texts[1]

\* C5: if no output container yields text on any extraction pass before the
\* timeout elapses, the result returned by run_proxy is the page's visible body
\* text, as the last pass read it, cut to its first 120000 characters: a single
\* fragment with no separator.  (A read of the body text that raises gives the
\* pass no text at all: the result is then empty.)
C5_BodyFallbackResult ==
    (Done /\ IsResult(Resp) /\ NoExtractEntry) =>
        /\ passes >= 1
        /\ Distinct = {}
        /\ seen.body = << >> <=> <<"body", 0>> \in plan
        /\ seen.body = << >> => Resp.result = << >> /\ texts = << >>
        /\ seen.body # << >> =>
             /\ texts = << Resp.result >>
             /\ TLen(Resp.result) <= MAX_CHARS
             /\ IF TLen(seen.body[1]) <= MAX_CHARS
                THEN Resp.result = seen.body[1]
                ELSE /\ TLen(Resp.result) = MAX_CHARS
                     /\ PrefixOf(Resp.result, seen.body[1])

C5_Witness ==
    /\ Done
    /\ IsResult(Resp)
    /\ NoExtractEntry
    /\ seen.body # << >>
    /\ TLen(seen.body[1]) > MAX_CHARS
    /\ TLen(Resp.result) = MAX_CHARS

\* C6 as stated: the poll loop makes no further pass and no further sleep once
\* a pass returns more than 10 characters, starts no pass later than the timeout
\* after polling began, and does not outlast the timeout by more than one sleep
\* interval.
C6_Original ==
    /\ (InLoop /\ passes >= 1) => TLen(output) <= MIN_OUTPUT
    /\ InPass => clock - tstart < timeout_s * 1000
    /\ PostLoop => clock - tstart <= timeout_s * 1000 + POLL_SLEEP_MS

\* C6 amended: the poll loop makes no further pass and no further sleep once a
\* pass returns more than 10 characters; it starts no pass later than the timeout
\* after polling began, so it does not outlast the timeout by more than one
\* extraction pass plus one sleep interval; it ends early only on sufficient
\* text, and when the timeout elapses the last extracted text (possibly empty)
\* is returned.
C6_PollLoopBounded ==
    /\ (InLoop /\ passes >= 1) => TLen(output) <= MIN_OUTPUT
    /\ InPass => clock - tstart < timeout_s * 1000
    /\ PostLoop =>
         /\ clock - tstart < timeout_s * 1000 + passMs + POLL_SLEEP_MS
         /\ IF TLen(output) > MIN_OUTPUT
            THEN sleeps = passes - 1 /\ clock - tstart < timeout_s * 1000 + passMs
            ELSE sleeps = passes /\ clock - tstart >= timeout_s * 1000
    /\ (Done /\ IsResult(Resp)) =>
         /\ Resp.result = output
         /\ TLen(output) = SumLen(texts) + (IF texts = << >> THEN 0
                             ELSE (Len(texts) - 1) * TLen(SEPARATOR))

C6_Witness ==
    /\ Done
    /\ IsResult(Resp)
    /\ passMs > 0
    /\ TLen(Resp.result) <= MIN_OUTPUT
    /\ clock - tstart > timeout_s * 1000 + POLL_SLEEP_MS

\* the calls of Session Bootstrap, and which of them this request reaches
BootstrapSites ==
    IframeSites \cup LoginSites \cup { <<"goto_root", 0>>, <<"regoto", 0>> }
StartSites ==
    { <<"pw_start", 0>>, <<"launch", 0>>, <<"new_context", 0>>, <<"new_page", 0>> }
IframeHasSrc == iframe # << >> /\ iframe[1].has /\ iframe[1].src # << >>
IframeRaises ==
    \/ <<"q_iframe", 0>> \in plan
    \/ iframe # << >> /\ <<"get_src", 0>> \in plan
    \/ IframeHasSrc /\ plan \cap { <<"new_page2", 0>>, <<"goto_iframe", 0>> } # {}
LoginAttempted ==
    /\ plan \cap { <<"q_user", 0>>, <<"q_pass", 0>> } = {}
    /\ form.user /\ form.pass /\ creds.user # "" /\ creds.pass # ""

\* C7 as stated: a failure of any Session Bootstrap step (navigation to the root
\* URL, iframe resolution and navigation into it, login, re-navigation to the
\* root URL) is caught and logged, execution reaches fill_and_click_app and the
\* request does not end with the error result.
C7_Original ==
    (Done /\ Truthy(text) /\ plan # {} /\ plan \subseteq BootstrapSites) =>
        /\ IsResult(Resp)
        /\ AfterDispatch

\* C7 amended: a failure of iframe resolution, of the navigation into the iframe
\* or of a login step is caught, appended to the log and non-fatal: execution
\* then reaches fill_and_click_app with a working page (the root page when the
\* iframe step failed).  A failure of the navigation to the root URL or of the
\* re-navigation to it is not caught in Bootstrap: it ends the request with the
\* error result, before fill_and_click_app.
C7_BootstrapFailures ==
    (Done /\ Truthy(text)) =>
        /\ plan \cap UnguardedSites = {} => IsResult(Resp) /\ AfterDispatch
        /\ (plan \cap StartSites = {} /\ <<"goto_root", 0>> \in plan) =>
             IsError(Resp) /\ Resp.trace[1] = "goto_root" /\ ~AfterDispatch
        /\ (plan \cap (StartSites \cup {<<"goto_root", 0>>}) = {}) =>
             /\ IframeRaises <=> HasEntry("iframe handling error: ")
             /\ IframeRaises => app_page = "page" \/ IsError(Resp)
             /\ plan \cap { <<"q_user", 0>>, <<"q_pass", 0>> } # {}
                  <=> HasEntry("login check error: ")
             /\ (LoginAttempted /\ <<"fill_user", 0>> \in plan)
                  <=> HasEntry("username fill error: ")
             /\ (LoginAttempted /\ <<"fill_pass", 0>> \in plan)
                  <=> HasEntry("password fill error: ")
             /\ (LoginAttempted /\ <<"click_login", 0>> \in plan)
                  <=> HasEntry("login click error in iframe: ")
             /\ (inner_page = "page" /\ <<"regoto", 0>> \in plan) =>
                  IsError(Resp) /\ Resp.trace[1] = "regoto" /\ ~AfterDispatch

C7_Witness ==
    /\ Done
    /\ IsResult(Resp)
    /\ AfterDispatch
    /\ IframeHasSrc
    /\ <<"goto_iframe", 0>> \in plan
    /\ HasEntry("iframe handling error: ")
    /\ app_page = "page"

\* the unguarded calls this request reaches that raise
Fatal ==
    (plan \cap UnguardedSites)
    \ (IF inner_page = "page" THEN {} ELSE { <<"regoto", 0>> })

\* C8: every call of run_proxy ends with exactly one response: a result, or, when
\* an exception escapes the guarded blocks (launch, navigation, teardown), one
\* error response carrying the trace and a log equal to exactly the entries
\* appended before the failure, in append order.
C8_OneResponse ==
    /\ Len(responses) <= 1
    /\ Done <=> Len(responses) = 1
    /\ (Done /\ Truthy(text)) =>
         /\ IsError(Resp) \/ IsResult(Resp)
         /\ Resp.debug = debug
         /\ IsError(Resp) <=> Fatal # {}
         /\ IsError(Resp) =>
              /\ Resp.error = "proxy_exception"
              /\ \A k \in DOMAIN Resp.trace :
                   \E site \in plan \cap UnguardedSites : Resp.trace[k] = site[1]
              /\ Len(Resp.trace) \in 1..2
              /\ Len(Resp.trace) = 2 =>
                   Resp.trace[2] = "pw_stop" /\ Resp.trace[1] # "pw_start"
              /\ Resp.trace[1] \in {"pw_start", "launch", "new_context", "new_page"}
                   => debug = << >>
              /\ Resp.trace[1] = "goto_root" =>
                   debug = << <<"navigating to root/login wrapper">> >>
              /\ Resp.trace[1] = "regoto" =>
                   /\ Len(debug) >= 3
                   /\ ~HasEntry("current page url before app actions: ")
              /\ Resp.trace[1] \in {"close", "pw_stop"} =>
                   /\ AfterDispatch
                   /\ passes >= 1
                   /\ debug[1] = <<"navigating to root/login wrapper">>

C8_Witness ==
    /\ Done
    /\ Len(responses) = 1
    /\ IsError(Resp)
    /\ Resp.trace = <<"close">>
    /\ Len(Resp.debug) > 3
    /\ Resp.debug = debug

\* C9 as stated: every non-error response contains the harvested text, the log
\* and two boolean flags, filled and clicked, equal to the outcome of Input
\* Dispatch.
C9_Original ==
    (Done /\ IsResult(Resp)) =>
        /\ {"result", "debug", "filled", "clicked"} \subseteq DOMAIN Resp
        /\ Resp.filled = filled
        /\ Resp.clicked = clicked

\* C9 amended: every non-error response contains the harvested text, the log,
\* the page URL and the markup snapshot, and no filled or clicked field: the
\* outcome of Input Dispatch is reported as the one log entry
\* "filled=<filled>, clicked=<clicked>".  When every fill strategy and every
\* button strategy fails the request is not turned into an error: its response
\* is of this kind and the entry reads filled=False, clicked=False.
C9_FlagsInLogOnly ==
    (Done /\ Truthy(text)) =>
        /\ plan \cap UnguardedSites = {} => IsResult(Resp)
        /\ IsResult(Resp) =>
             /\ DOMAIN Resp = {"result", "debug", "page_url_after", "snapshot_snippet"}
             /\ Resp.result = output
             /\ Resp.snapshot_snippet = snapshot
             /\ EntriesOf(Resp.debug, "filled=") =
                  << <<"filled=", PyBool(Holders # {}), ", clicked=",
                       PyBool(\E j \in DOMAIN dom.btns : dom.btns[j].clicks > 0)>> >>
             /\ (~filled /\ ~clicked) =>
                  InSeq(<<"filled=", "False", ", clicked=", "False">>, Resp.debug)

C9_Witness ==
    /\ Done
    /\ IsResult(Resp)
    /\ dom.tas = << >>
    /\ dom.btns # << >>
    /\ plan # {}
    /\ ~filled
    /\ ~clicked
    /\ InSeq(<<"filled=", "False", ", clicked=", "False">>, Resp.debug)

\* the last pass read no container text and a body of more than 10 characters
BodyEndsLoop ==
    /\ PassDone
    /\ Distinct = {}
    /\ seen.body # << >>
    /\ (IF TLen(seen.body[1]) > MAX_CHARS THEN MAX_CHARS ELSE TLen(seen.body[1]))
         > MIN_OUTPUT

\* C10: extract_output falls back to the body text inside every pass, so the poll
\* loop ends at the first pass in which no output container has text and the
\* body text is longer than 10 characters, and returns that body text; output
\* that the remote app renders after that pass is never harvested; the loop waits
\* for container output only while the body text is at most 10 characters long.
C10_BodyEndsPolling ==
    /\ BodyEndsLoop =>
         /\ ~InLoop
         /\ TLen(output) > MIN_OUTPUT
         /\ PrefixOf(output, seen.body[1])
         /\ texts = <<output>>
         /\ (Done /\ IsResult(Resp)) => Resp.result = output
    /\ (pc = "sleep" /\ Distinct = {} /\ seen.body # << >>) =>
         TLen(seen.body[1]) <= MIN_OUTPUT
    /\ (passes >= 2 /\ ~rendered /\ dom.out = << >> /\ <<"body", 0>> \notin plan) =>
         TLen(dom.body) <= MIN_OUTPUT

C10_Witness ==
    /\ Done
    /\ IsResult(Resp)
    /\ passes = 1
    /\ BodyEndsLoop
    /\ rendered
    /\ \E j \in DOMAIN dom.out : Strip(dom.out[j].text) # << >>
    /\ Resp.result = seen.body[1]
    /\ NoExtractEntry

====
